---- MODULE Spec2Model ----
(***************************************************************************)
(* prime_tools (src/src/lib.rs): the sieve of Eratosthenes behind          *)
(* get_primes_less_than_x, the offset sieve of get_primes_between, the     *)
(* factorizer get_prime_factors_with_counts and the trial-division tests   *)
(* is_u32_prime / is_u64_prime.                                            *)
(*                                                                         *)
(* The two sieves are modelled step by step (one action per loop step, one *)
(* flag cleared per step); the factorizer and the primality tests are pure *)
(* functions and are modelled as operators applied by one action each.     *)
(*                                                                         *)
(* Integer widths are scaled: u32 is U32Bits wide and u64 twice that, so   *)
(* that the places where the code's arithmetic leaves its width are inside *)
(* the explored inputs.  Rust defines overflow per build profile: with     *)
(* overflow checks (debug, cargo test) it panics, without (release) it     *)
(* wraps; overflow_checks is the profile of the run.                       *)
(***************************************************************************)
EXTENDS Integers, Sequences, FiniteSets, TLC

\* ---------------------------------------------------------------- bounds
\* width of the modelled u32 (u64 is twice as wide)
U32Bits == 8
\* get_primes_less_than_x is explored for x in 0..MaxX
MaxX == 180
\* get_primes_between is explored for min in 0..MaxMin, max in 0..MaxMax,
\* and for windows of at most MaxMin values around the largest supported max
MaxMin == 12
MaxMax == 50
\* get_prime_factors_with_counts is explored for x in 0..MaxFactorX and every
\* increasing list of primes below MaxListPrime
MaxFactorX == 40
MaxListPrime == 12
\* is_u64_prime is explored for x in 0..MaxU64X
MaxU64X == 200

U32Modulus == 2 ^ U32Bits
U32Max == U32Modulus - 1
U64Bits == 2 * U32Bits
U64Modulus == 2 ^ U64Bits
U64Max == U64Modulus - 1
\* a request for more bits than this cannot be served by the allocator (the
\* process aborts); every in-range sieve of the explored inputs is far below
AllocLimit == 2 ^ (U64Bits - 1)

\* ------------------------------------------------- mathematical vocabulary
FloorSqrt(n) == CHOOSE r \in 0..n : r * r <= n /\ (r + 1) * (r + 1) > n

IsPrime(n) == n >= 2 /\ \A d \in 2..FloorSqrt(n) : n % d # 0

Range(s) == {s[k] : k \in 1..Len(s)}

StrictlyIncreasing(s) == \A k \in 1..(Len(s) - 1) : s[k] < s[k + 1]

\* s lists exactly the primes p with lo <= p < hi, each once, in increasing order
ListsPrimesOf(s, lo, hi) ==
    /\ StrictlyIncreasing(s)
    /\ Range(s) = {p \in lo..(hi - 1) : IsPrime(p)}

RECURSIVE SortedSeq(_)
SortedSeq(S) ==
    IF S = {} THEN <<>>
    ELSE LET m == CHOOSE a \in S : \A b \in S : a <= b
         IN <<m>> \o SortedSeq(S \ {m})

\* ------------------------------------------------------------ BitVec
\* BitVec::from_elem(nbits, true): flags indexed 0 .. nbits-1
from_elem(nbits) == [k \in 0..(nbits - 1) |-> TRUE]

\* BitVec::set(k, false) on an index inside the vector
clear(map, k) == [map EXCEPT ![k] = FALSE]

\* ------------------------------------------- helpers of the full sieve
\* round::ceil((x as f64).sqrt(), 1) as usize: the square root rounded UP to
\* one decimal place (scale 1), then truncated by the cast
SqrtBound_exclusive(x) == FloorSqrt(x) - 1
SqrtBound(x) ==
    LET m == CHOOSE c \in 0..(10 * x + 10) :
                 c * c >= 100 * x /\ (c = 0 \/ (c - 1) * (c - 1) < 100 * x)
    IN m \div 10

\* get_primes_less_than_x, lines 33-37: the indices i in 0..x-1 whose flag is set
CollectBelow(map, x) ==
    LET Test(k) == map[k] IN SelectSeq([k \in 1..x |-> k - 1], Test)

\* ----------------------------------------- helpers of the offset sieve
TrueMin(mn) == IF mn < 2 THEN 2 ELSE mn

\* (max as f64).sqrt() as u32: a saturating cast of the floor of the root
HighestFactor_short(mx) == FloorSqrt(mx) - 1
HighestFactor(mx) ==
    IF FloorSqrt(mx) > U32Max THEN U32Max ELSE FloorSqrt(mx)

\* lines 222-237: the first value of the sweep of seed prime p
FirstVal_noskip(p, tm) ==
    LET multiplier == IF tm > p THEN tm \div p ELSE 1
        v0 == multiplier * p
    IN IF v0 < tm THEN v0 + p ELSE v0
FirstVal(p, tm) ==
    LET multiplier == IF tm > p THEN tm \div p ELSE 1
        v0 == multiplier * p
        v1 == IF p >= tm THEN v0 + p ELSE v0
    IN IF v1 < tm THEN v1 + p ELSE v1

\* lines 245-249: the values val in true_min..max-1 whose flag is set
CollectBetween(map, tm, mx) ==
    LET Test(v) == map[v - tm]
    IN SelectSeq([k \in 1..(IF mx > tm THEN mx - tm ELSE 0) |-> tm + k - 1], Test)

\* ------------------------------------------------------------ factorizer
\* HashMap::insert
insert(fc, key, count) ==
    [q \in (DOMAIN fc) \cup {key} |-> IF q = key THEN count ELSE fc[q]]

\* lines 92-95: divide drop_x by prime while it divides, counting
RECURSIVE DivideOut(_, _, _)
DivideOut(drop, prime, count) ==
    IF drop % prime = 0
    THEN DivideOut(drop \div prime, prime, count + 1)
    ELSE [prime_count |-> count, drop_x |-> drop]

\* lines 88-101: the walk over the candidate list
RECURSIVE FactorLoop(_, _, _, _)
FactorLoop(drop, idx, plist, fc) ==
    IF drop > 1 /\ idx <= Len(plist)
    THEN LET r == DivideOut(drop, plist[idx], 0)
         IN FactorLoop(r.drop_x, idx + 1, plist,
                       IF r.prime_count # 0
                       THEN insert(fc, plist[idx], r.prime_count)
                       ELSE fc)
    ELSE fc

get_prime_factors_with_counts(x, plist) ==
    LET fc == FactorLoop(x, 1, plist, <<>>)
    IN IF DOMAIN fc = {} THEN insert(fc, x, 1) ELSE fc

\* ------------------------------------------------------- primality tests
Returned(b) == [status |-> "ok", value |-> b]
Panicked == [status |-> "panic", value |-> FALSE]

Continues == [status |-> "continue", value |-> FALSE]

\* lines 300-309 (and 279-288): i = 5, w = 2; while i * i <= x { if x % i == 0
\* { return false; } i += w; w = 6 - w; } return true;
\* i and i * i have the width of x: with overflow checks a product or a sum
\* that leaves the width panics, without them it wraps.
\* After k rounds i is 5 + 2 + 4 + 2 + ... (k summands) in that width:
WheelCandidate(k) == 5 + (6 * (k \div 2)) + (2 * (k % 2))

\* what round k of the loop does, when the loop gets that far
WheelRound(x, k, modulus, checks) ==
    LET iv == WheelCandidate(k) % modulus
    IN IF checks /\ iv * iv >= modulus THEN Panicked
       ELSE IF (iv * iv) % modulus > x THEN Returned(TRUE)
       ELSE IF x % iv = 0 THEN Returned(FALSE)
       ELSE IF checks /\ WheelCandidate(k + 1) >= modulus THEN Panicked
       ELSE Continues

\* the loop: the first round that leaves it
WheelLoop(x, modulus, checks) ==
    LET last == CHOOSE k \in 0..modulus :
                    /\ WheelRound(x, k, modulus, checks).status # "continue"
                    /\ \A m \in 0..(k - 1) :
                          WheelRound(x, m, modulus, checks).status = "continue"
    IN WheelRound(x, last, modulus, checks)

is_u32_definitely_composite(x) == FALSE

is_u32_definately_prime(x, checks) ==
    IF x = 2 \/ x = 3 THEN Returned(TRUE)
    ELSE IF x % 2 = 0 \/ x % 3 = 0 THEN Returned(FALSE)
    ELSE WheelLoop(x, U32Modulus, checks)

is_u32_prime(x, checks) ==
    IF x < 2 THEN Returned(FALSE)
    ELSE IF is_u32_definitely_composite(x) THEN Returned(FALSE)
    ELSE is_u32_definately_prime(x, checks)

is_u64_definitely_composite(x) == FALSE

\* lines 277-278 are `if .. { true }` and `if .. { false }` with no `return`:
\* the value of each block is not returned and control falls through to the
\* loop, so the function is the loop alone
is_u64_definately_prime(x, checks) == WheelLoop(x, U64Modulus, checks)

is_u64_prime(x, checks) ==
    IF x < 2 THEN Returned(FALSE)
    ELSE IF is_u64_definitely_composite(x) THEN Returned(FALSE)
    ELSE is_u64_definately_prime(x, checks)

\* ------------------------------------------------------------------ state
VARIABLES
    op,              \* the function under call
    args,            \* its arguments
    overflow_checks, \* build profile: TRUE panics on overflow, FALSE wraps
    pc,              \* position in the code
    status,          \* "running", "ok", "panic" or "abort"
    ret,             \* where get_primes_less_than_x returns to
    bm_x,            \* x of get_primes_less_than_x / get_prime_bit_map
    prime_map,       \* prime_map of get_prime_bit_map
    i, j,            \* its loop variables
    primes,          \* primes of get_primes_less_than_x
    min, max,        \* min, max of get_primes_between
    true_min,
    possible_prime_factors,
    offset_map,      \* prime_map of get_primes_between
    seed,            \* position of `for prime in &possible_prime_factors`
    val,
    primes_under,    \* primes_under of the consistency test
    result           \* the value returned

vars == <<op, args, overflow_checks, pc, status, ret, bm_x, prime_map, i, j,
          primes, min, max, true_min, possible_prime_factors, offset_map,
          seed, val, primes_under, result>>

sieve_vars == <<bm_x, prime_map, i, j, primes>>
offset_vars == <<min, max, true_min, possible_prime_factors, offset_map, seed, val>>
call_vars == <<op, args, overflow_checks>>

\* ----------------------------------------------------------------- inputs
PrimeLists == {SortedSeq(S) : S \in SUBSET {p \in 2..(MaxListPrime - 1) : IsPrime(p)}}

Boundary == U32Max * U32Max

BetweenInputs ==
    {<<mn, mx>> : mn \in 0..MaxMin, mx \in 0..MaxMax}
    \cup {<<mx - d, mx>> : mx \in (Boundary - 2)..(Boundary + 1), d \in 1..MaxMin}
    \cup {<<U64Max - 1, U64Max>>}

Start(o, a, checks, at, r, x, mn, mx) ==
    /\ op = o /\ args = a /\ overflow_checks = checks
    /\ pc = at /\ status = "running" /\ ret = r
    /\ bm_x = x /\ prime_map = <<>> /\ i = 0 /\ j = 0 /\ primes = <<>>
    /\ min = mn /\ max = mx /\ true_min = 0
    /\ possible_prime_factors = <<>> /\ offset_map = <<>> /\ seed = 0 /\ val = 0
    /\ primes_under = <<>> /\ result = <<>>

Init ==
    \E checks \in BOOLEAN :
      \/ \E x \in 0..MaxX :
           Start("get_primes_less_than_x", [x |-> x], checks,
                 "bitmap_alloc", "caller", x, 0, 0)
      \/ \E pair \in BetweenInputs :
           Start("get_primes_between", [min |-> pair[1], max |-> pair[2]], checks,
                 "between_entry", "seeds", 0, pair[1], pair[2])
      \/ \E n \in 0..MaxMax :
           Start("consistency", [n |-> n], checks,
                 "bitmap_alloc", "under", n, 0, 0)
      \/ \E x \in 0..MaxFactorX, plist \in PrimeLists :
           Start("get_prime_factors_with_counts", [x |-> x, primes |-> plist],
                 checks, "call", "none", 0, 0, 0)
      \/ \E x \in 0..U32Max :
           Start("is_u32_prime", [x |-> x], checks, "call", "none", 0, 0, 0)
      \/ \E x \in 0..MaxU64X :
           Start("is_u64_prime", [x |-> x], checks, "call", "none", 0, 0, 0)

\* ---------------------------------------------- get_prime_bit_map, 254-274
\* line 255: BitVec::from_elem(x as usize + 1, true)
BitmapAlloc ==
    /\ pc = "bitmap_alloc"
    /\ prime_map' = from_elem(bm_x + 1)
    /\ pc' = "bitmap_clear01"
    /\ UNCHANGED <<call_vars, status, ret, bm_x, i, j, primes, offset_vars,
                   primes_under, result>>

\* lines 258-259: set(0, false); set(1, false).  BitVec::set panics on an index
\* that is not below the length.
BitmapClear01 ==
    /\ pc = "bitmap_clear01"
    /\ IF 1 \in DOMAIN prime_map
       THEN /\ prime_map' = clear(clear(prime_map, 0), 1)
            /\ i' = 2
            /\ pc' = "bitmap_outer"
            /\ UNCHANGED status
       ELSE /\ prime_map' = clear(prime_map, 0)
            /\ status' = "panic"
            /\ pc' = "done"
            /\ UNCHANGED i
    /\ UNCHANGED <<call_vars, ret, bm_x, j, primes, offset_vars, primes_under, result>>

\* lines 262-264: for i in 2..=bound { if prime_map[i] { for j in i.. {
BitmapOuter ==
    /\ pc = "bitmap_outer"
    /\ IF i > SqrtBound(bm_x)
       THEN /\ pc' = "less_than_collect"
            /\ UNCHANGED <<i, j, status>>
       ELSE IF i \notin DOMAIN prime_map
       THEN /\ status' = "panic"
            /\ pc' = "done"
            /\ UNCHANGED <<i, j>>
       ELSE IF prime_map[i]
       THEN /\ j' = i
            /\ pc' = "bitmap_inner"
            /\ UNCHANGED <<i, status>>
       ELSE /\ i' = i + 1
            /\ UNCHANGED <<j, pc, status>>
    /\ UNCHANGED <<call_vars, ret, bm_x, prime_map, primes, offset_vars,
                   primes_under, result>>

\* lines 265-268: if i * j > x { break; } prime_map.set(i * j, false);
BitmapInner ==
    /\ pc = "bitmap_inner"
    /\ IF i * j > bm_x
       THEN /\ i' = i + 1
            /\ pc' = "bitmap_outer"
            /\ UNCHANGED <<j, prime_map>>
       ELSE /\ prime_map' = clear(prime_map, i * j)
            /\ j' = j + 1
            /\ UNCHANGED <<i, pc>>
    /\ UNCHANGED <<call_vars, status, ret, bm_x, primes, offset_vars,
                   primes_under, result>>

\* ------------------------------------------ get_primes_less_than_x, 29-40
LessThanCollect ==
    /\ pc = "less_than_collect"
    /\ primes' = CollectBelow(prime_map, bm_x)
    /\ pc' = "less_than_return"
    /\ UNCHANGED <<call_vars, status, ret, bm_x, prime_map, i, j, offset_vars,
                   primes_under, result>>

\* line 39, returning to the caller of the library
ReturnToCaller ==
    /\ pc = "less_than_return" /\ ret = "caller"
    /\ result' = primes
    /\ status' = "ok"
    /\ pc' = "done"
    /\ UNCHANGED <<call_vars, ret, sieve_vars, offset_vars, primes_under>>

\* line 39, returning into get_primes_between (line 217)
ReturnSeeds ==
    /\ pc = "less_than_return" /\ ret = "seeds"
    /\ possible_prime_factors' = primes
    /\ pc' = "offset_alloc"
    /\ UNCHANGED <<call_vars, status, ret, sieve_vars, min, max, true_min,
                   offset_map, seed, val, primes_under, result>>

\* line 39, returning into the consistency test (lines 478-480), which then
\* calls get_primes_between(0, n)
ReturnUnder ==
    /\ pc = "less_than_return" /\ ret = "under"
    /\ primes_under' = primes
    /\ min' = 0
    /\ max' = args.n
    /\ ret' = "seeds"
    /\ pc' = "between_entry"
    /\ UNCHANGED <<call_vars, status, sieve_vars, true_min,
                   possible_prime_factors, offset_map, seed, val, result>>

\* ---------------------------------------------- get_primes_between, 210-251
\* lines 211-217: true_min, highest_factor, get_primes_less_than_x(highest_factor + 1)
BetweenEntry ==
    /\ pc = "between_entry"
    /\ true_min' = TrueMin(min)
    /\ IF overflow_checks /\ HighestFactor(max) + 1 > U32Max
       THEN /\ status' = "panic"
            /\ pc' = "done"
            /\ UNCHANGED bm_x
       ELSE /\ bm_x' = (HighestFactor(max) + 1) % U32Modulus
            /\ pc' = "bitmap_alloc"
            /\ UNCHANGED status
    /\ UNCHANGED <<call_vars, ret, prime_map, i, j, primes, min, max,
                   possible_prime_factors, offset_map, seed, val, primes_under,
                   result>>

\* line 220: BitVec::from_elem((max - true_min) as usize + 1, true)
OffsetLen == (((max - true_min) % U64Modulus) + 1) % U64Modulus

OffsetAlloc ==
    /\ pc = "offset_alloc"
    /\ IF overflow_checks /\ max < true_min
       THEN /\ status' = "panic"
            /\ pc' = "done"
            /\ UNCHANGED <<offset_map, seed>>
       ELSE IF OffsetLen > AllocLimit
       THEN /\ status' = "abort"
            /\ pc' = "done"
            /\ UNCHANGED <<offset_map, seed>>
       ELSE /\ offset_map' = from_elem(OffsetLen)
            /\ seed' = 1
            /\ pc' = "offset_seed"
            /\ UNCHANGED status
    /\ UNCHANGED <<call_vars, ret, sieve_vars, min, max, true_min,
                   possible_prime_factors, val, primes_under, result>>

\* lines 221-237: the next seed prime and the first value of its sweep
OffsetSeed ==
    /\ pc = "offset_seed"
    /\ IF seed > Len(possible_prime_factors)
       THEN /\ pc' = "between_collect"
            /\ UNCHANGED val
       ELSE /\ val' = FirstVal(possible_prime_factors[seed], true_min)
            /\ pc' = "offset_clear"
    /\ UNCHANGED <<call_vars, status, ret, sieve_vars, min, max, true_min,
                   possible_prime_factors, offset_map, seed, primes_under, result>>

\* lines 238-241: while val < max { prime_map.set(val - true_min, false); val += prime; }
OffsetClear ==
    /\ pc = "offset_clear"
    /\ IF val >= max
       THEN /\ seed' = seed + 1
            /\ pc' = "offset_seed"
            /\ UNCHANGED <<offset_map, val, status>>
       ELSE IF (val - true_min) \notin DOMAIN offset_map
       THEN /\ status' = "panic"
            /\ pc' = "done"
            /\ UNCHANGED <<offset_map, val, seed>>
       ELSE /\ offset_map' = clear(offset_map, val - true_min)
            /\ val' = val + possible_prime_factors[seed]
            /\ UNCHANGED <<seed, pc, status>>
    /\ UNCHANGED <<call_vars, ret, sieve_vars, min, max, true_min,
                   possible_prime_factors, primes_under, result>>

\* lines 244-250
BetweenCollect ==
    /\ pc = "between_collect"
    /\ result' = CollectBetween(offset_map, true_min, max)
    /\ IF op = "consistency"
       THEN /\ pc' = "assert_eq"
            /\ UNCHANGED status
       ELSE /\ pc' = "done"
            /\ status' = "ok"
    /\ UNCHANGED <<call_vars, ret, sieve_vars, offset_vars, primes_under>>

\* tests, lines 478-482: assert_eq!(get_primes_between(0, n), primes_under)
AssertEq ==
    /\ pc = "assert_eq"
    /\ status' = IF result = primes_under THEN "ok" ELSE "panic"
    /\ pc' = "done"
    /\ UNCHANGED <<call_vars, ret, sieve_vars, offset_vars, primes_under, result>>

\* ------------------------------------------------------- the pure functions
Factorize ==
    /\ pc = "call" /\ op = "get_prime_factors_with_counts"
    /\ result' = get_prime_factors_with_counts(args.x, args.primes)
    /\ status' = "ok"
    /\ pc' = "done"
    /\ UNCHANGED <<call_vars, ret, sieve_vars, offset_vars, primes_under>>

IsU32Prime ==
    /\ pc = "call" /\ op = "is_u32_prime"
    /\ result' = is_u32_prime(args.x, overflow_checks).value
    /\ status' = is_u32_prime(args.x, overflow_checks).status
    /\ pc' = "done"
    /\ UNCHANGED <<call_vars, ret, sieve_vars, offset_vars, primes_under>>

IsU64Prime ==
    /\ pc = "call" /\ op = "is_u64_prime"
    /\ result' = is_u64_prime(args.x, overflow_checks).value
    /\ status' = is_u64_prime(args.x, overflow_checks).status
    /\ pc' = "done"
    /\ UNCHANGED <<call_vars, ret, sieve_vars, offset_vars, primes_under>>

Next ==
    \/ BitmapAlloc
    \/ BitmapClear01
    \/ BitmapOuter
    \/ BitmapInner
    \/ LessThanCollect
    \/ ReturnToCaller
    \/ ReturnSeeds
    \/ ReturnUnder
    \/ BetweenEntry
    \/ OffsetAlloc
    \/ OffsetSeed
    \/ OffsetClear
    \/ BetweenCollect
    \/ AssertEq
    \/ Factorize
    \/ IsU32Prime
    \/ IsU64Prime

Spec == Init /\ [][Next]_vars

\* ------------------------------------------------------------- properties
Max2(mn) == IF mn > 2 THEN mn ELSE 2

Done(o) == op = o /\ pc = "done"

\* C1: for every x >= 1, get_primes_less_than_x(x) returns exactly the primes
\* p < x, each once, in strictly increasing order.
C1_LessThanListsPrimes ==
    (Done("get_primes_less_than_x") /\ args.x >= 1)
        => (status = "ok" /\ ListsPrimesOf(result, 0, args.x))

\* x = 37: x is prime and x - 1 is a perfect square
C1_Witness ==
    /\ Done("get_primes_less_than_x") /\ args.x = 37 /\ status = "ok"
    /\ result = <<2, 3, 5, 7, 11, 13, 17, 19, 23, 29, 31>>

\* C2 as stated: for every min and max with max >= max(min, 2),
\* get_primes_between(min, max) returns exactly the primes p with
\* max(min, 2) <= p < max, each once, in strictly increasing order.
C2_BetweenListsPrimes ==
    (Done("get_primes_between") /\ args.max >= Max2(args.min))
        => (status = "ok" /\ ListsPrimesOf(result, Max2(args.min), args.max))

\* C2 as amended: the same for every max whose seed bound floor(sqrt(max)) + 1
\* is within u32, that is max < (u32::MAX)^2.
C2_BetweenListsPrimesBelowBoundary ==
    (Done("get_primes_between") /\ args.max >= Max2(args.min)
                                /\ args.max < U32Max * U32Max)
        => (status = "ok" /\ ListsPrimesOf(result, Max2(args.min), args.max))

\* the prime 11 = min is listed, the prime 29 = max is not
C2_Witness ==
    /\ Done("get_primes_between") /\ args.min = 11 /\ args.max = 29
    /\ status = "ok" /\ result = <<11, 13, 17, 19, 23>>

RECURSIVE Product(_)
Product(fc) ==
    IF DOMAIN fc = {} THEN 1
    ELSE LET key == CHOOSE q \in DOMAIN fc : TRUE
         IN (key ^ fc[key]) * Product([q \in (DOMAIN fc) \ {key} |-> fc[q]])

ContainsPrimesUpToSqrt(plist, x) ==
    \A p \in 2..FloorSqrt(x) : IsPrime(p) => p \in Range(plist)

\* C3: for every x >= 2 and every increasing prime list that contains every
\* prime up to sqrt(x), the product of key^value over the entries of
\* get_prime_factors_with_counts(x, primes) is x, and a prime x yields {x: 1}.
C3_ProductReconstructs ==
    (Done("get_prime_factors_with_counts") /\ args.x >= 2
         /\ ContainsPrimesUpToSqrt(args.primes, args.x))
        => /\ Product(result) = args.x
           /\ IsPrime(args.x) => result = insert(<<>>, args.x, 1)

\* C4: for every N >= 1 and every n < N, n is in get_primes_less_than_x(N)
\* exactly when is_u32_prime(n) returns true.
C4_SieveAgreesWithTrialDivision ==
    (Done("get_primes_less_than_x") /\ args.x >= 1)
        => /\ status = "ok"
           /\ \A n \in 0..(args.x - 1) :
                  (n \in Range(result))
                      <=> (is_u32_prime(n, overflow_checks) = Returned(TRUE))

\* C5: for every n >= 0, get_primes_between(0, n) returns the same sequence as
\* get_primes_less_than_x(n).
C5_BetweenFromZeroEqualsLessThan ==
    Done("consistency") => (status = "ok" /\ result = primes_under)

\* C6: is_u64_prime(x) returns true exactly when x is prime.
C6_U64PrimeIffPrime ==
    Done("is_u64_prime") => (status = "ok" /\ result = IsPrime(args.x))

\* C7: get_primes_less_than_x(0) and get_primes_less_than_x(1) complete
\* normally and return the empty list; no index outside the sieve is touched.
C7_ZeroAndOneYieldEmpty ==
    (Done("get_primes_less_than_x") /\ args.x <= 1)
        => (status = "ok" /\ result = <<>>)

\* C8: get_primes_between(min, max) completes normally and returns the empty
\* list whenever max <= max(min, 2); max - true_min never underflows.
C8_BetweenTotalOnEmptyRanges ==
    /\ pc = "offset_alloc" => max >= true_min
    /\ (Done("get_primes_between") /\ args.max <= Max2(args.min))
           => (status = "ok" /\ result = <<>>)

\* the smallest multiple of p that is >= tm and strictly greater than p: the
\* one multiple of p among the p values from max(tm, p + 1) on
FirstMultipleAbove(p, tm) ==
    LET lo == IF tm > p THEN tm ELSE p + 1
    IN CHOOSE v \in lo..(lo + p - 1) : v % p = 0

\* C9: while either sieve is built, a flag only ever changes from true to
\* false and the flag of a prime is never cleared; in the full sieve the sweep
\* of i starts at i * i, in the offset sieve the sweep of a seed prime p starts
\* at the smallest multiple of p that is >= true_min and greater than p.
C9_Step ==
    /\ pc # "bitmap_alloc"
           => \A k \in DOMAIN prime_map :
                  /\ prime_map'[k] => prime_map[k]
                  /\ (prime_map[k] /\ ~prime_map'[k]) => ~IsPrime(k)
    /\ pc # "offset_alloc"
           => \A k \in DOMAIN offset_map :
                  /\ offset_map'[k] => offset_map[k]
                  /\ (offset_map[k] /\ ~offset_map'[k]) => ~IsPrime(true_min + k)
    /\ pc = "bitmap_alloc" => \A k \in DOMAIN prime_map' : prime_map'[k]
    /\ pc = "offset_alloc" => \A k \in DOMAIN offset_map' : offset_map'[k]
    /\ (pc = "bitmap_outer" /\ pc' = "bitmap_inner") => i' * j' = i * i
    /\ (pc = "bitmap_inner" /\ prime_map' # prime_map)
           => (i * j >= i * i /\ prime_map' = clear(prime_map, i * j))
    /\ (pc = "offset_seed" /\ pc' = "offset_clear")
           => val' = FirstMultipleAbove(possible_prime_factors[seed], true_min)
    /\ (pc = "offset_clear" /\ offset_map' # offset_map)
           => offset_map' = clear(offset_map, val - true_min)

C9_FlagsOnlyClearedAndPrimesKept == [][C9_Step]_vars

\* the sweep of the seed prime 3 = true_min has cleared 6 and not 3, after the
\* full sieve of the seeds has cleared 4 = 2 * 2
C9_Witness ==
    /\ op = "get_primes_between" /\ pc = "offset_clear"
    /\ true_min = 3 /\ possible_prime_factors[seed] = 3 /\ val = 9
    /\ offset_map[0] /\ ~offset_map[3]
    /\ 4 \in DOMAIN prime_map /\ ~prime_map[4]

\* C10: the loop of is_u32_prime never leaves the 32-bit width when it
\* evaluates i * i <= x, so the call completes and returns true for every
\* prime x.
C10_TrialDivisionStaysInWidth ==
    Done("is_u32_prime")
        => (status = "ok" /\ (IsPrime(args.x) => result = TRUE))
====
